---- MODULE Spec2Model ----
(***************************************************************************)
(* State-machine model of the prediktfi_protocol program                   *)
(* (programs/prediktfi-protocol/src/lib.rs): the protocol state, the       *)
(* prediction markets, the user predictions and the lamports held by the   *)
(* user wallets and the market accounts.                                   *)
(*                                                                         *)
(* Every instruction is one atomic transaction: the account validation of  *)
(* its #[derive(Accounts)] context runs first, then the handler; an error  *)
(* at any point rolls the whole transaction back.  Each instruction is     *)
(* written as a function from the current accounts and its arguments to    *)
(* the outcome of the transaction (its error code and the accounts it      *)
(* leaves), and as the action that commits that outcome.                   *)
(*                                                                         *)
(* Lamports are counted above the rent-exempt reserve of each account.     *)
(* Fields that no handler ever reads and no property mentions (the id and  *)
(* description text, created_timestamp, UserPrediction.market, .user and   *)
(* .timestamp) are not part of the state; the description is kept as its   *)
(* length.                                                                 *)
(***************************************************************************)
EXTENDS Integers, Sequences, FiniteSets, TLC

\* ------------------------------------------------------------------ bounds
MaxTime == 2
MaxAmount == 2
InitLamports == 2
\* width of the integers that stand for u64 (u128 is twice as wide)
U64Bits == 10

\* ------------------------------------------------------- program constants
MaxIdLen == 50
MaxDescLen == 500
MaxSeedLen == 32

Users == {"alice", "bob", "carol"}
\* alice deploys the protocol and creates the markets; bob and carol only stake
Creators == {"alice"}
MarketIds == {"m1", "m2"}
LongIds == {"id33", "id51"}
IdLen(id) == IF id \in MarketIds THEN 2 ELSE IF id = "id33" THEN 33 ELSE 51

U64Max == 2^U64Bits - 1
Times == 0..MaxTime
Amounts == 0..MaxAmount

None == << >>
Some(x) == << x >>

VARIABLES now, protocol_state, markets, predictions, user_lamports, market_lamports, result

vars == << now, protocol_state, markets, predictions, user_lamports, market_lamports, result >>
accounts == << protocol_state, markets, predictions, user_lamports, market_lamports >>

\* ---------------------------------------------------------- account types
\* An account that was never created holds zeroed data (is_init = FALSE).
ProtocolState == [is_init |-> FALSE, authority |-> "", total_markets |-> 0,
                  is_paused |-> FALSE]

PredictionMarket == [is_init |-> FALSE, description |-> 0, end_timestamp |-> 0,
                     resolved_timestamp |-> None,
                     min_bet_amount |-> 0, is_resolved |-> FALSE, outcome |-> None,
                     total_yes_amount |-> 0, total_no_amount |-> 0,
                     total_participants |-> 0, authority |-> ""]

UserPrediction == [is_init |-> FALSE, amount |-> 0, prediction |-> FALSE,
                   claimed |-> FALSE, winnings |-> 0]

\* The lamports each wallet holds before the protocol is deployed.
Wallet(u) == IF u = "carol" THEN InitLamports - 1 ELSE InitLamports

Init ==
    /\ now = 0
    /\ protocol_state = ProtocolState
    /\ markets = [m \in MarketIds |-> PredictionMarket]
    /\ predictions = [m \in MarketIds |-> [u \in Users |-> UserPrediction]]
    /\ user_lamports = [u \in Users |-> Wallet(u)]
    /\ market_lamports = [m \in MarketIds |-> 0]
    /\ result = [op |-> "none", err |-> "Ok"]

\* ----------------------------------------------------------- transactions
\* The outcome of a transaction that failed with err: every account as it was.
Rollback(err) ==
    [err |-> err, protocol_state |-> protocol_state, markets |-> markets,
     predictions |-> predictions, user_lamports |-> user_lamports,
     market_lamports |-> market_lamports]

\* The transaction of instruction op ends with outcome tx; result keeps the
\* instruction and its error code.
Commit(op, tx) ==
    /\ result' = [op |-> op, err |-> tx.err]
    /\ protocol_state' = tx.protocol_state
    /\ markets' = tx.markets
    /\ predictions' = tx.predictions
    /\ user_lamports' = tx.user_lamports
    /\ market_lamports' = tx.market_lamports
    /\ UNCHANGED now

\* ------------------------------------------------------------------ clock
\* Clock::get()?.unix_timestamp never goes backwards between transactions.
Tick ==
    /\ now < MaxTime
    /\ now' = now + 1
    /\ UNCHANGED << accounts, result >>

\* ------------------------------------------------------------ u64 / u128
\* `+` and `+=` on u64 panic on overflow when the program is built with
\* overflow-checks and wrap modulo 2^64 otherwise; `checks` is that build flag.
WrappingAdd_Dropped(a, b) == a
WrappingAdd(a, b) == (a + b) % (U64Max + 1)
AddOverflows(a, b) == a + b > U64Max
\* The builds that behave differently on a transaction: both when one of its
\* additions overflows, otherwise they agree.
OverflowChecks(overflows) == IF overflows THEN BOOLEAN ELSE {TRUE}
U128Max == (U64Max + 1) * (U64Max + 1) - 1

\* (amount as u128).checked_mul(total_pool as u128): None on u128 overflow
CheckedMul(a, b) == IF a * b > U128Max THEN None ELSE Some(a * b)
\* .checked_div(winning_pool as u128): None on division by zero
CheckedDiv(a, b) == IF b = 0 THEN None ELSE Some(a \div b)
\* `as u64`: keeps the low 64 bits
AsU32(x) == x % (2 ^ (U64Bits \div 2))
AsU64(x) == x % (U64Max + 1)

\* ------------------------------------------------------------- initialize
initialize(authority) ==
    IF protocol_state.is_init THEN Rollback("AccountAlreadyInUse")
    ELSE [Rollback("Ok") EXCEPT
            !.protocol_state = [is_init |-> TRUE, authority |-> authority,
                                total_markets |-> 0, is_paused |-> FALSE]]

Initialize(authority) == Commit("initialize", initialize(authority))

\* ----------------------------------------------- create_prediction_market
\* #[account(init, ..., seeds = [b"market", market_id.as_bytes()], bump)]:
\* the system program creates the market account only if it does not exist
MarketAccountFree_Skipped(market_id) == TRUE
MarketAccountFree(market_id) == ~markets[market_id].is_init

\* require!(min_bet_amount > 0, InvalidMinBetAmount)
MinBetPositive_Skipped(min_bet_amount) == TRUE
MinBetPositive(min_bet_amount) == min_bet_amount > 0

\* protocol_state.total_markets += 1
NextTotalMarkets_Unchanged(total_markets) == total_markets
NextTotalMarkets(total_markets) == WrappingAdd(total_markets, 1)

CreatePredictionMarketErr(market_id, desc_len, end_timestamp, min_bet_amount, checks) ==
    IF ~protocol_state.is_init THEN "AccountNotInitialized"
    ELSE IF IdLen(market_id) > MaxSeedLen THEN "MaxSeedLengthExceeded"
    ELSE IF ~MarketAccountFree(market_id) THEN "AccountAlreadyInUse"
    ELSE IF protocol_state.is_paused THEN "ProtocolPaused"
    ELSE IF ~(IdLen(market_id) <= MaxIdLen) THEN "MarketIdTooLong"
    ELSE IF ~(desc_len <= MaxDescLen) THEN "DescriptionTooLong"
    ELSE IF ~MinBetPositive(min_bet_amount) THEN "InvalidMinBetAmount"
    ELSE IF ~(end_timestamp > now) THEN "InvalidEndTime"
    ELSE IF checks /\ AddOverflows(protocol_state.total_markets, 1) THEN "Panic"
    ELSE "Ok"

create_prediction_market(authority, market_id, desc_len, end_timestamp, min_bet_amount, checks) ==
    LET err == CreatePredictionMarketErr(market_id, desc_len, end_timestamp,
                                         min_bet_amount, checks) IN
    IF err # "Ok" THEN Rollback(err)
    ELSE [Rollback("Ok") EXCEPT
            !.markets[market_id] =
                [is_init |-> TRUE,
                 description |-> desc_len,
                 end_timestamp |-> end_timestamp,
                 resolved_timestamp |-> None,
                 min_bet_amount |-> min_bet_amount,
                 is_resolved |-> FALSE,
                 outcome |-> None,
                 total_yes_amount |-> 0,
                 total_no_amount |-> 0,
                 total_participants |-> 0,
                 authority |-> authority],
            !.protocol_state.total_markets = NextTotalMarkets(@)]

CreatePredictionMarket(authority, market_id, desc_len, end_timestamp, min_bet_amount) ==
    \E checks \in OverflowChecks(AddOverflows(protocol_state.total_markets, 1)) :
        Commit("create_prediction_market",
               create_prediction_market(authority, market_id, desc_len,
                                        end_timestamp, min_bet_amount, checks))

\* ------------------------------------------------------- place_prediction
\* The `init` constraint hands the handler a freshly zeroed UserPrediction.
FreshUserPrediction == [UserPrediction EXCEPT !.is_init = TRUE]

SideTotal(market, prediction) ==
    IF prediction THEN market.total_yes_amount ELSE market.total_no_amount

PlaceOverflows(market, amount, prediction) ==
    \/ AddOverflows(SideTotal(market, prediction), amount)
    \/ AddOverflows(market.total_participants, 1)

\* require!(clock.unix_timestamp < market.end_timestamp, MarketExpired)
StakeWindowOpen_Inclusive(market) == now <= market.end_timestamp
StakeWindowOpen(market) == now < market.end_timestamp

\* require!(amount >= market.min_bet_amount, BetAmountTooLow)
MinBetMet_Skipped(market, amount) == TRUE
MinBetMet(market, amount) == amount >= market.min_bet_amount

\* invoke(system_instruction::transfer(user, market, lamports))?
FundsCover_Skipped(user, amount) == TRUE
FundsCover(user, amount) == user_lamports[user] >= amount

PlacePredictionErr(market_id, user, amount, prediction, checks) ==
    LET market == markets[market_id]
        user_prediction == FreshUserPrediction IN
    IF ~market.is_init THEN "AccountNotInitialized"
    ELSE IF predictions[market_id][user].is_init THEN "AccountAlreadyInUse"
    ELSE IF ~(~market.is_resolved) THEN "MarketAlreadyResolved"
    ELSE IF ~MinBetMet(market, amount) THEN "BetAmountTooLow"
    ELSE IF ~StakeWindowOpen(market) THEN "MarketExpired"
    ELSE IF user_prediction.amount > 0 THEN "UserAlreadyPredicted"
    ELSE IF ~FundsCover(user, amount) THEN "InsufficientFunds"
    ELSE IF checks /\ PlaceOverflows(market, amount, prediction) THEN "Panic"
    ELSE "Ok"

place_prediction(market_id, user, amount, prediction, checks) ==
    LET err == PlacePredictionErr(market_id, user, amount, prediction, checks) IN
    IF err # "Ok" THEN Rollback(err)
    ELSE [Rollback("Ok") EXCEPT
            !.user_lamports[user] = @ - amount,
            !.market_lamports[market_id] = @ + amount,
            !.markets[market_id].total_yes_amount =
                IF prediction THEN WrappingAdd(@, amount) ELSE @,
            !.markets[market_id].total_no_amount =
                IF prediction THEN @ ELSE WrappingAdd(@, amount),
            !.markets[market_id].total_participants = WrappingAdd(@, 1),
            !.predictions[market_id][user] =
                [FreshUserPrediction EXCEPT !.amount = amount,
                                            !.prediction = prediction]]

PlacePrediction(market_id, user, amount, prediction) ==
    \E checks \in OverflowChecks(PlaceOverflows(markets[market_id], amount, prediction)) :
        Commit("place_prediction",
               place_prediction(market_id, user, amount, prediction, checks))

\* --------------------------------------------------------- resolve_market
\* #[account(mut, has_one = authority)]
HasOneAuthority_Skipped(market, authority) == TRUE
HasOneAuthority(market, authority) == market.authority = authority

\* require!(!market.is_resolved, MarketAlreadyResolved)
NotYetResolved_Skipped(market) == TRUE
NotYetResolved(market) == ~market.is_resolved

\* require!(clock.unix_timestamp >= market.end_timestamp, MarketNotExpired)
StakeWindowClosed_Strict(market) == now > market.end_timestamp
StakeWindowClosed(market) == now >= market.end_timestamp

\* `signer` sends the transaction; `authority` is the key passed in the
\* authority slot of the ResolveMarket context.
ResolveMarketErr(market_id, signer, authority) ==
    LET market == markets[market_id] IN
    IF ~market.is_init THEN "AccountNotInitialized"
    ELSE IF authority # signer THEN "AccountNotSigner"
    ELSE IF ~HasOneAuthority(market, authority) THEN "ConstraintHasOne"
    ELSE IF ~NotYetResolved(market) THEN "MarketAlreadyResolved"
    ELSE IF ~StakeWindowClosed(market) THEN "MarketNotExpired"
    ELSE "Ok"

\* a resolution that refuses an outcome nobody staked on
resolve_market_NonEmptySide(market_id, signer, authority, outcome) ==
    LET err == ResolveMarketErr(market_id, signer, authority) IN
    IF err # "Ok" THEN Rollback(err)
    ELSE IF SideTotal(markets[market_id], outcome) = 0 THEN Rollback("NoWinners")
    ELSE [Rollback("Ok") EXCEPT
            !.markets[market_id].is_resolved = TRUE,
            !.markets[market_id].outcome = Some(outcome),
            !.markets[market_id].resolved_timestamp = Some(now)]

resolve_market(market_id, signer, authority, outcome) ==
    LET err == ResolveMarketErr(market_id, signer, authority) IN
    IF err # "Ok" THEN Rollback(err)
    ELSE [Rollback("Ok") EXCEPT
            !.markets[market_id].is_resolved = TRUE,
            !.markets[market_id].outcome = Some(outcome),
            !.markets[market_id].resolved_timestamp = Some(now)]

ResolveMarket(market_id, signer, authority, outcome) ==
    Commit("resolve_market", resolve_market(market_id, signer, authority, outcome))

\* --------------------------------------------------------- claim_winnings
\* let total_pool = market.total_yes_amount + market.total_no_amount
TotalPool(market) == WrappingAdd(market.total_yes_amount, market.total_no_amount)

WinningPool(market, outcome) ==
    IF outcome THEN market.total_yes_amount ELSE market.total_no_amount

\* require!(!user_prediction.claimed, AlreadyClaimed)
NotClaimed_Skipped(user_prediction) == TRUE
NotClaimed(user_prediction) == ~user_prediction.claimed

\* if user_prediction.prediction != outcome { return Err(UserLost) }
UserWon_Skipped(user_prediction, outcome) == TRUE
UserWon(user_prediction, outcome) == user_prediction.prediction = outcome

\* user_winnings, None standing for the MathOverflow exit
UserWinnings_DivideFirst(amount, total_pool, winning_pool) ==
    IF winning_pool = 0 THEN None
    ELSE Some(AsU64((amount \div winning_pool) * total_pool))
UserWinnings_WholePool(amount, total_pool, winning_pool) ==
    IF winning_pool = 0 THEN None ELSE Some(total_pool)
UserWinnings(amount, total_pool, winning_pool) ==
    LET product == CheckedMul(amount, total_pool) IN
    IF product = None THEN None
    ELSE LET quotient == CheckedDiv(product[1], winning_pool) IN
         IF quotient = None THEN None ELSE Some(AsU64(quotient[1]))

Failed(err) == [err |-> err, user_winnings |-> 0]

\* The handler up to the lamport transfer, given the market, the record and
\* the lamports the market account holds: the error it returns, or "Ok" and
\* the winnings it pays.
ClaimWinningsResult_Unresolved(market, user_prediction, balance, checks) ==
    LET outcome == IF market.outcome = None THEN FALSE ELSE market.outcome[1] IN
    IF ~NotClaimed(user_prediction) THEN Failed("AlreadyClaimed")
    ELSE IF ~UserWon(user_prediction, outcome) THEN Failed("UserLost")
    ELSE LET user_winnings == UserWinnings(user_prediction.amount, TotalPool(market),
                                           WinningPool(market, outcome)) IN
         IF user_winnings = None THEN Failed("MathOverflow")
         ELSE IF user_winnings[1] > balance THEN Failed("InsufficientFundsForRent")
         ELSE [err |-> "Ok", user_winnings |-> user_winnings[1]]
ClaimWinningsResult(market, user_prediction, balance, checks) ==
    IF ~market.is_resolved THEN Failed("MarketNotResolved")
    ELSE IF ~NotClaimed(user_prediction) THEN Failed("AlreadyClaimed")
    ELSE IF market.outcome = None THEN Failed("MarketNotResolved")
    ELSE IF ~UserWon(user_prediction, market.outcome[1]) THEN Failed("UserLost")
    ELSE IF checks /\ AddOverflows(market.total_yes_amount, market.total_no_amount)
         THEN Failed("Panic")
    ELSE LET user_winnings == UserWinnings(user_prediction.amount, TotalPool(market),
                                           WinningPool(market, market.outcome[1])) IN
         IF user_winnings = None THEN Failed("MathOverflow")
         \* the debit must leave the market account its rent-exempt reserve
         ELSE IF user_winnings[1] > balance THEN Failed("InsufficientFundsForRent")
         ELSE [err |-> "Ok", user_winnings |-> user_winnings[1]]

\* user_prediction.claimed = true; user_prediction.winnings = user_winnings
MarkClaimed_WinningsOnly(user_prediction, user_winnings) ==
    [user_prediction EXCEPT !.winnings = user_winnings]
MarkClaimed(user_prediction, user_winnings) ==
    [user_prediction EXCEPT !.claimed = TRUE, !.winnings = user_winnings]

claim_winnings(market_id, user, checks) ==
    IF ~markets[market_id].is_init \/ ~predictions[market_id][user].is_init
    THEN Rollback("AccountNotInitialized")
    ELSE LET res == ClaimWinningsResult(markets[market_id], predictions[market_id][user],
                                        market_lamports[market_id], checks) IN
         IF res.err # "Ok" THEN Rollback(res.err)
         ELSE [Rollback("Ok") EXCEPT
                !.market_lamports[market_id] = @ - res.user_winnings,
                !.user_lamports[user] = @ + res.user_winnings,
                !.predictions[market_id][user] = MarkClaimed(@, res.user_winnings)]

ClaimWinnings(market_id, user) ==
    \E checks \in OverflowChecks(AddOverflows(markets[market_id].total_yes_amount,
                                              markets[market_id].total_no_amount)) :
        Commit("claim_winnings", claim_winnings(market_id, user, checks))

\* ---------------------------------------------------------- specification
\* The arguments tried for create_prediction_market: every deadline with a
\* minimum bet of 1 and every minimum bet with the latest deadline, under
\* an id and a description that fit, and one call for each id and
\* description that do not.
CreateArgs(ids, amounts) ==
    [market_id : ids, desc_len : {MaxDescLen}, end_timestamp : Times,
     min_bet_amount : {1}]
    \cup [market_id : ids, desc_len : {MaxDescLen}, end_timestamp : {MaxTime},
          min_bet_amount : amounts]
    \cup [market_id : LongIds, desc_len : {MaxDescLen}, end_timestamp : {MaxTime},
          min_bet_amount : {1}]
    \cup [market_id : ids, desc_len : {MaxDescLen + 1}, end_timestamp : {MaxTime},
          min_bet_amount : {1}]

\* One transaction: any instruction, with its accounts and arguments drawn
\* from the given identifiers.
Instruction(ids, users, amounts) ==
    \/ \E a \in users \cap Creators : Initialize(a)
    \/ \E a \in users \cap Creators, args \in CreateArgs(ids, amounts) :
            CreatePredictionMarket(a, args.market_id, args.desc_len,
                                   args.end_timestamp, args.min_bet_amount)
    \/ \E m \in ids, u \in users, amt \in amounts, p \in BOOLEAN :
            PlacePrediction(m, u, amt, p)
    \* the signer passes its own key, or the market authority's, as authority
    \/ \E m \in ids, s \in users, o \in BOOLEAN :
            \E a \in {s} \cup ({markets[m].authority} \cap users) :
                ResolveMarket(m, s, a, o)
    \/ \E m \in ids, u \in users :
            ClaimWinnings(m, u)

\* One market, three participants.
Next ==
    \/ Tick
    \/ Instruction({"m1"}, Users, Amounts)

Spec == Init /\ [][Next]_vars

\* Two markets; their creator is the only participant, with stakes of 0 or 1.
Stakers == {"alice"}
UnitStakes == {0, 1}

NextMarkets ==
    \/ Tick
    \/ Instruction(MarketIds, Stakers, UnitStakes)

SpecMarkets == Init /\ [][NextMarkets]_vars

\* One market staked up to the top of the u64 range.  Lamports are u64 and
\* all the lamports in existence together fit in a u64: the three wallets
\* hold U64Max between them.
WideWallet(u) == IF u = "alice" THEN U64Max - 2 ELSE 1
WideAmounts == {1, U64Max - 2, U64Max}

InitWide ==
    /\ now = 0
    /\ protocol_state = ProtocolState
    /\ markets = [m \in MarketIds |-> PredictionMarket]
    /\ predictions = [m \in MarketIds |-> [u \in Users |-> UserPrediction]]
    /\ user_lamports = [u \in Users |-> WideWallet(u)]
    /\ market_lamports = [m \in MarketIds |-> 0]
    /\ result = [op |-> "none", err |-> "Ok"]

NextWide ==
    \/ Tick
    \/ Instruction({"m1"}, Users, WideAmounts)

SpecWide == InitWide /\ [][NextWide]_vars

\* ------------------------------------------------------------ properties
RECURSIVE SetSum(_, _)
SetSum(f, S) ==
    IF S = {} THEN 0
    ELSE LET x == CHOOSE y \in S : TRUE IN f[x] + SetSum(f, S \ {x})

LastResult(op, err) == result.op = op /\ result.err = err

\* The winnings stored on the claimed records of market m.
PaidOut(m) ==
    SetSum([u \in Users |-> IF predictions[m][u].claimed
                            THEN predictions[m][u].winnings ELSE 0], Users)

PooledTotal(m) == markets[m].total_yes_amount + markets[m].total_no_amount

\* The record of u is on the losing side of the resolved market m.
Lost(m, u) ==
    /\ markets[m].is_resolved
    /\ predictions[m][u].is_init
    /\ markets[m].outcome # Some(predictions[m][u].prediction)

\* C1: a stake record pays out at most once.  Once a record is claimed no
\* step changes it, and a claim_winnings on it fails with AlreadyClaimed,
\* moves no lamports and leaves every account as it was.
C1_ClaimedRecordNeverPaysAgain ==
    /\ [](\A m \in MarketIds, u \in Users, checks \in BOOLEAN :
            predictions[m][u].claimed =>
                claim_winnings(m, u, checks) = Rollback("AlreadyClaimed"))
    /\ [][\A m \in MarketIds, u \in Users :
            predictions[m][u].claimed =>
                predictions'[m][u] = predictions[m][u]]_vars

C1_Witness ==
    /\ LastResult("claim_winnings", "AlreadyClaimed")
    /\ \E m \in MarketIds, u \in Users :
            predictions[m][u].claimed /\ predictions[m][u].winnings > 0

\* C2: for every market the winnings paid to its claimed records never
\* exceed total_yes_amount + total_no_amount, and the residual (pooled total
\* minus the payouts so far) is what the market account still holds, so it
\* is never negative.
C2_PayoutsWithinPool ==
    \A m \in MarketIds :
        /\ PaidOut(m) <= PooledTotal(m)
        /\ market_lamports[m] = PooledTotal(m) - PaidOut(m)
        /\ market_lamports[m] >= 0

\* every winner has claimed and rounding dust is left in the market
C2_Witness ==
    \E m \in MarketIds :
        /\ markets[m].is_resolved
        /\ \A u \in Users : predictions[m][u].is_init /\
                (predictions[m][u].prediction = markets[m].outcome[1]
                    => predictions[m][u].claimed)
        /\ Cardinality({u \in Users : predictions[m][u].claimed}) >= 2
        /\ 0 < PooledTotal(m) - PaidOut(m)
        /\ PooledTotal(m) - PaidOut(m) = market_lamports[m]

\* C3: a claim_winnings succeeds only on a resolved market for a record on
\* the winning side; it pays and stores exactly
\* floor(amount * (total_yes_amount + total_no_amount) / winning_pool) and
\* sets claimed.  With pools 300 YES / 100 NO, outcome YES, a stake of 30
\* receives 40.
C3_Example ==
    LET market == [PredictionMarket EXCEPT !.is_init = TRUE, !.is_resolved = TRUE,
                        !.outcome = Some(TRUE), !.total_yes_amount = 300,
                        !.total_no_amount = 100]
        record == [FreshUserPrediction EXCEPT !.amount = 30, !.prediction = TRUE]
    IN ClaimWinningsResult(market, record, 400, TRUE) = [err |-> "Ok", user_winnings |-> 40]

C3_ClaimPaysFloorOfShare ==
    /\ C3_Example
    /\ \A m \in MarketIds, u \in Users, checks \in BOOLEAN :
        LET tx == claim_winnings(m, u, checks)
            market == markets[m]
            record == predictions[m][u]
            winning_pool == IF market.outcome = Some(TRUE)
                            THEN market.total_yes_amount
                            ELSE market.total_no_amount
            share == (record.amount * PooledTotal(m)) \div winning_pool
        IN tx.err = "Ok" =>
            /\ market.is_resolved
            /\ market.outcome = Some(record.prediction)
            /\ tx = [Rollback("Ok") EXCEPT
                        !.predictions[m][u] = [record EXCEPT !.claimed = TRUE,
                                                             !.winnings = share],
                        !.user_lamports[u] = @ + share,
                        !.market_lamports[m] = @ - share]

\* a claim was just paid whose share was rounded down
C3_Witness ==
    /\ LastResult("claim_winnings", "Ok")
    /\ \E m \in MarketIds, u \in Users :
        LET record == predictions[m][u]
            winning_pool == IF markets[m].outcome = Some(TRUE)
                            THEN markets[m].total_yes_amount
                            ELSE markets[m].total_no_amount
        IN /\ record.claimed
           /\ record.winnings > record.amount
           /\ record.winnings * winning_pool < record.amount * PooledTotal(m)

\* C4: a second place_prediction by the same user on the same market fails
\* with UserAlreadyPredicted, overwrites nothing and leaves the totals
\* unchanged.
C4_SecondStakeFailsUserAlreadyPredicted ==
    \A m \in MarketIds, u \in Users, amt \in Amounts, p \in BOOLEAN :
        predictions[m][u].is_init =>
            place_prediction(m, u, amt, p, TRUE) = Rollback("UserAlreadyPredicted")

\* C5: resolve_market by the market authority fails with MarketNotExpired
\* and changes nothing while now < end_timestamp; on an unresolved market
\* at or after end_timestamp it succeeds; on a resolved market it fails
\* with MarketAlreadyResolved, and no other attempt changes the market
\* either, so the resolution is never replaced.
C5_ResolvedOnceAfterDeadline ==
    \A m \in MarketIds, o \in BOOLEAN :
        LET market == markets[m]
            tx == resolve_market(m, market.authority, market.authority, o)
        IN market.is_init =>
            /\ now < market.end_timestamp => tx = Rollback("MarketNotExpired")
            /\ (now >= market.end_timestamp /\ ~market.is_resolved) =>
                    tx = [Rollback("Ok") EXCEPT
                            !.markets[m] = [market EXCEPT
                                                !.is_resolved = TRUE,
                                                !.outcome = Some(o),
                                                !.resolved_timestamp = Some(now)]]
            /\ market.is_resolved =>
                    /\ tx = Rollback("MarketAlreadyResolved")
                    /\ \A s \in Users, a \in Users :
                            resolve_market(m, s, a, o).markets = markets

\* a market resolved exactly at its deadline has refused a second resolution
C5_Witness ==
    /\ LastResult("resolve_market", "MarketAlreadyResolved")
    /\ \E m \in MarketIds :
            /\ markets[m].is_resolved
            /\ markets[m].resolved_timestamp = Some(markets[m].end_timestamp)

\* C6: once a market is resolved no step changes its total_yes_amount,
\* total_no_amount, outcome or is_resolved.
C6_ResolvedMarketFrozen ==
    [][\A m \in MarketIds :
        markets[m].is_resolved =>
            /\ markets'[m].is_resolved
            /\ markets'[m].outcome = markets[m].outcome
            /\ markets'[m].total_yes_amount = markets[m].total_yes_amount
            /\ markets'[m].total_no_amount = markets[m].total_no_amount]_vars

\* a stake was just refused on a resolved market that holds stakes
C6_Witness ==
    /\ LastResult("place_prediction", "MarketAlreadyResolved")
    /\ \E m \in MarketIds : markets[m].is_resolved /\ PooledTotal(m) > 0

\* C7: a resolve_market sent by anyone but market.authority fails, whatever
\* the time, the outcome argument and the key passed as authority, and
\* leaves the market (is_resolved, outcome, resolved_timestamp) and every
\* other account unchanged.
C7_OnlyAuthorityResolves ==
    \A m \in MarketIds, s \in Users, a \in Users, o \in BOOLEAN :
        (markets[m].is_init /\ s # markets[m].authority) =>
            \E err \in {"AccountNotSigner", "ConstraintHasOne"} :
                resolve_market(m, s, a, o) = Rollback(err)

\* a stranger was refused on an unresolved market whose deadline has passed
C7_Witness ==
    /\ LastResult("resolve_market", "ConstraintHasOne")
    /\ \E m \in MarketIds :
            /\ markets[m].is_init /\ ~markets[m].is_resolved
            /\ now >= markets[m].end_timestamp

\* A stake that passes every check made before the deadline check.
ValidStake(m, u, amt) ==
    /\ ~markets[m].is_resolved
    /\ amt >= markets[m].min_bet_amount
    /\ ~predictions[m][u].is_init

\* C8 as stated: every place_prediction at now >= end_timestamp fails with
\* MarketExpired and changes nothing; an otherwise valid one at
\* end_timestamp - 1 succeeds.
C8_LateStakeFailsMarketExpired ==
    \A m \in MarketIds, u \in Users, amt \in Amounts, p \in BOOLEAN :
        LET tx == place_prediction(m, u, amt, p, TRUE) IN
        markets[m].is_init =>
            /\ now >= markets[m].end_timestamp => tx = Rollback("MarketExpired")
            /\ (/\ now = markets[m].end_timestamp - 1
                /\ ValidStake(m, u, amt)
                /\ user_lamports[u] >= amt) => tx.err = "Ok"

\* C8 amended: every place_prediction at now >= end_timestamp fails and
\* changes nothing; the error is MarketExpired when the market is
\* unresolved, amount >= min_bet_amount and the user has no record (the
\* checks made before the deadline check report their own error otherwise);
\* at end_timestamp - 1 such a stake, covered by the user's balance,
\* succeeds.
C8_StakeDeadlineExclusive ==
    \A m \in MarketIds, u \in Users, amt \in Amounts, p \in BOOLEAN :
        LET tx == place_prediction(m, u, amt, p, TRUE) IN
        markets[m].is_init =>
            /\ now >= markets[m].end_timestamp =>
                    /\ tx.err # "Ok"
                    /\ tx = Rollback(tx.err)
                    /\ ValidStake(m, u, amt) => tx.err = "MarketExpired"
                    /\ ~ValidStake(m, u, amt) =>
                            tx.err \in {"AccountAlreadyInUse", "MarketAlreadyResolved",
                                        "BetAmountTooLow"}
            /\ (/\ now = markets[m].end_timestamp - 1
                /\ ValidStake(m, u, amt)
                /\ user_lamports[u] >= amt) =>
                    /\ tx.err = "Ok"
                    /\ tx.predictions[m][u].is_init
                    /\ tx.predictions[m][u].amount = amt

\* a valid stake was just refused at exactly end_timestamp
C8_Witness ==
    /\ LastResult("place_prediction", "MarketExpired")
    /\ \E m \in MarketIds :
            /\ markets[m].is_init /\ ~markets[m].is_resolved
            /\ now = markets[m].end_timestamp
            /\ markets[m].total_participants > 0

\* C9: on a resolved market a record whose prediction differs from the
\* outcome is never claimed and keeps winnings = 0; every claim_winnings on
\* it fails with UserLost and changes nothing.
C9_LoserNeverPaid ==
    \A m \in MarketIds, u \in Users :
        Lost(m, u) =>
            /\ ~predictions[m][u].claimed
            /\ predictions[m][u].winnings = 0
            /\ \A checks \in BOOLEAN : claim_winnings(m, u, checks) = Rollback("UserLost")

\* a loser was just refused while a winner of the same market has been paid
C9_Witness ==
    /\ LastResult("claim_winnings", "UserLost")
    /\ \E m \in MarketIds, u \in Users, w \in Users :
            Lost(m, u) /\ predictions[m][w].claimed

\* C10: while a market is unresolved every claim_winnings on one of its
\* records fails with MarketNotResolved and changes nothing; a record is
\* claimed, and lamports have left the market, only if the market has been
\* resolved by resolve_market.
C10_NoPayoutBeforeResolution ==
    \A m \in MarketIds, u \in Users :
        /\ (markets[m].is_init /\ ~markets[m].is_resolved /\ predictions[m][u].is_init) =>
                \A checks \in BOOLEAN :
                    claim_winnings(m, u, checks) = Rollback("MarketNotResolved")
        /\ ~markets[m].is_resolved =>
                /\ ~predictions[m][u].claimed
                /\ market_lamports[m] = PooledTotal(m)
        /\ predictions[m][u].claimed =>
                /\ markets[m].is_resolved
                /\ markets[m].outcome # None
                /\ markets[m].resolved_timestamp # None

\* a claim was just refused on a staked market whose deadline has passed
\* but which nobody has resolved
C10_Witness ==
    /\ LastResult("claim_winnings", "MarketNotResolved")
    /\ \E m \in MarketIds, u \in Users :
            /\ predictions[m][u].is_init
            /\ ~markets[m].is_resolved
            /\ now >= markets[m].end_timestamp

\* C11: place_prediction with amount < min_bet_amount fails in every state
\* of the market (unresolved or resolved, before or after end_timestamp,
\* with or without a record of the user) and changes no account or
\* balance; every stake record has amount >= its market's
\* min_bet_amount > 0.
C11_StakeBelowMinimumFails ==
    \A m \in MarketIds, u \in Users :
        /\ markets[m].is_init =>
                \A amt \in Amounts, p \in BOOLEAN :
                    LET tx == place_prediction(m, u, amt, p, TRUE) IN
                    amt < markets[m].min_bet_amount =>
                        tx.err # "Ok" /\ tx = Rollback(tx.err)
        /\ predictions[m][u].is_init =>
                /\ predictions[m][u].amount >= markets[m].min_bet_amount
                /\ markets[m].min_bet_amount > 0

\* a stake of 1 was just refused on an open market with a minimum bet of 2
\* that already holds a stake
C11_Witness ==
    /\ LastResult("place_prediction", "BetAmountTooLow")
    /\ \E m \in MarketIds :
            /\ markets[m].min_bet_amount >= 2
            /\ ~markets[m].is_resolved
            /\ now < markets[m].end_timestamp
            /\ markets[m].total_participants > 0

MarketCount == Cardinality({m \in MarketIds : markets[m].is_init})

\* C12: a successful create_prediction_market adds exactly 1 to
\* total_markets and yields a market with zero totals and participants,
\* unresolved, outcome unset, authority = the creator; a failed create,
\* place_prediction, resolve_market and claim_winnings leave total_markets
\* as it is; total_markets equals the number of markets that exist.
C12_TotalMarketsCountsMarkets ==
    /\ protocol_state.total_markets = MarketCount
    /\ \A a \in Creators, args \in CreateArgs(MarketIds, UnitStakes), checks \in BOOLEAN :
            LET tx == create_prediction_market(a, args.market_id, args.desc_len,
                            args.end_timestamp, args.min_bet_amount, checks)
                market == tx.markets[args.market_id]
            IN IF tx.err = "Ok"
               THEN /\ tx.protocol_state.total_markets = protocol_state.total_markets + 1
                    /\ ~markets[args.market_id].is_init /\ market.is_init
                    /\ market.total_yes_amount = 0 /\ market.total_no_amount = 0
                    /\ market.total_participants = 0
                    /\ ~market.is_resolved /\ market.outcome = None
                    /\ market.authority = a
               ELSE tx.protocol_state = protocol_state
    /\ \A m \in MarketIds, u \in Users, checks \in BOOLEAN :
            /\ \A amt \in UnitStakes, p \in BOOLEAN :
                    place_prediction(m, u, amt, p, checks).protocol_state = protocol_state
            /\ \A a \in Users, o \in BOOLEAN :
                    resolve_market(m, u, a, o).protocol_state = protocol_state
            /\ claim_winnings(m, u, checks).protocol_state = protocol_state

\* the second market was just created while the first is resolved and paid
C12_Witness ==
    /\ LastResult("create_prediction_market", "Ok")
    /\ protocol_state.total_markets = 2
    /\ \E m \in MarketIds, u \in Users :
            markets[m].is_resolved /\ predictions[m][u].claimed

\* What u has staked in all markets, and what u has been paid.
Staked(u) ==
    SetSum([m \in MarketIds |-> predictions[m][u].amount], MarketIds)
Received(u) ==
    SetSum([m \in MarketIds |-> IF predictions[m][u].claimed
                                 THEN predictions[m][u].winnings ELSE 0], MarketIds)
RecordedStakes(m) ==
    SetSum([u \in Users |-> predictions[m][u].amount], Users)

\* C13: create_prediction_market with the id of an existing market fails
\* and leaves that market, every stake record, total_markets and every
\* other account unchanged.
C13_DuplicateIdFails ==
    \A a \in Users, args \in CreateArgs(MarketIds, UnitStakes), checks \in BOOLEAN :
        LET tx == create_prediction_market(a, args.market_id, args.desc_len,
                        args.end_timestamp, args.min_bet_amount, checks)
        IN (args.market_id \in MarketIds /\ markets[args.market_id].is_init) =>
                tx.err # "Ok" /\ tx = Rollback(tx.err)

\* a create was just refused for the id of a resolved market that holds a
\* stake, while the other id is still free
C13_Witness ==
    /\ LastResult("create_prediction_market", "AccountAlreadyInUse")
    /\ \E m \in MarketIds, n \in MarketIds :
            /\ markets[m].is_resolved /\ markets[m].total_participants > 0
            /\ ~markets[n].is_init

\* C14: a place_prediction whose transfer of `amount` from the user fails
\* (the user holds less) fails as a whole: totals, total_participants,
\* records and both balances are as before.  Lamports have left a wallet
\* exactly when a record holds them as its amount, and have entered a
\* market exactly when its totals count them.
C14_FailedTransferChangesNothing ==
    /\ \A m \in MarketIds, u \in Users, amt \in Amounts, p \in BOOLEAN :
            LET tx == place_prediction(m, u, amt, p, TRUE) IN
            (markets[m].is_init /\ user_lamports[u] < amt) =>
                /\ tx.err # "Ok"
                /\ tx = Rollback(tx.err)
                /\ (ValidStake(m, u, amt) /\ now < markets[m].end_timestamp) =>
                        tx.err = "InsufficientFunds"
    /\ \A u \in Users :
            /\ user_lamports[u] >= 0
            /\ user_lamports[u] = Wallet(u) - Staked(u) + Received(u)
    /\ \A m \in MarketIds :
            /\ RecordedStakes(m) = PooledTotal(m)
            /\ market_lamports[m] + PaidOut(m) = RecordedStakes(m)

\* a stake larger than the wallet was just refused on an open market that
\* already holds another stake
C14_Witness ==
    /\ LastResult("place_prediction", "InsufficientFunds")
    /\ \E m \in MarketIds, u \in Users :
            /\ ~markets[m].is_resolved /\ now < markets[m].end_timestamp
            /\ ~predictions[m][u].is_init
            /\ user_lamports[u] < MaxAmount
            /\ markets[m].total_participants > 0

\* The payout of record u of market m in unbounded integers.
ExactShare(m, u) ==
    (predictions[m][u].amount * PooledTotal(m))
        \div (IF markets[m].outcome = Some(TRUE) THEN markets[m].total_yes_amount
                                                  ELSE markets[m].total_no_amount)

SideStakes(m, p) ==
    SetSum([u \in Users |-> IF predictions[m][u].prediction = p
                            THEN predictions[m][u].amount ELSE 0], Users)

\* C16: a place_prediction whose amount added to the total of its side
\* would exceed the stored width fails with an error code, under either
\* build, and leaves totals, total_participants and records unchanged; no
\* pooled total is ever stored wrapped.
C16_OverflowingStakeFails ==
    /\ \A m \in MarketIds, u \in Users, amt \in WideAmounts, p \in BOOLEAN,
          checks \in BOOLEAN :
            LET tx == place_prediction(m, u, amt, p, checks) IN
            (markets[m].is_init /\ AddOverflows(SideTotal(markets[m], p), amt)) =>
                /\ tx = Rollback(tx.err)
                /\ tx.err \in {"AccountAlreadyInUse", "MarketAlreadyResolved",
                                "MarketExpired", "InsufficientFunds"}
    /\ \A m \in MarketIds :
            /\ markets[m].total_yes_amount = SideStakes(m, TRUE)
            /\ markets[m].total_no_amount = SideStakes(m, FALSE)

\* a stake was just refused for lack of funds on an open market where a
\* stake that would overflow a total is refused for lack of funds
C16_Witness ==
    /\ LastResult("place_prediction", "InsufficientFunds")
    /\ \E m \in MarketIds, u \in Users, amt \in WideAmounts, p \in BOOLEAN :
            /\ AddOverflows(SideTotal(markets[m], p), amt)
            /\ place_prediction(m, u, amt, p, TRUE).err = "InsufficientFunds"

\* The record of u is on the winning side of the resolved market m.
Won(m, u) ==
    /\ markets[m].is_resolved
    /\ predictions[m][u].is_init
    /\ markets[m].outcome = Some(predictions[m][u].prediction)

\* C17: on a resolved market every record on the winning side has
\* winning_pool >= amount > 0, so a claim_winnings that passes the
\* resolved, not-claimed and winner checks never divides by zero and never
\* returns MathOverflow.
C17_WinningPoolCoversWinner ==
    \A m \in MarketIds, u \in Users :
        Won(m, u) =>
            /\ predictions[m][u].amount > 0
            /\ WinningPool(markets[m], markets[m].outcome[1]) >= predictions[m][u].amount
            /\ UserWinnings(predictions[m][u].amount, TotalPool(markets[m]),
                            WinningPool(markets[m], markets[m].outcome[1])) # None
            /\ \A checks \in BOOLEAN :
                    claim_winnings(m, u, checks).err \in {"Ok", "AlreadyClaimed"}

\* a winner who shares the winning pool with another winner was just paid
C17_Witness ==
    /\ LastResult("claim_winnings", "Ok")
    /\ \E m \in MarketIds, u \in Users :
            /\ Won(m, u) /\ predictions[m][u].claimed
            /\ WinningPool(markets[m], markets[m].outcome[1]) > predictions[m][u].amount

\* C18: for every market total_yes_amount is the sum of the amounts of its
\* records with prediction = true, total_no_amount the sum of those with
\* prediction = false, and total_participants the number of its records.
C18_TotalsAreSumsOfRecords ==
    \A m \in MarketIds :
        /\ markets[m].total_yes_amount =
                SetSum([u \in Users |-> IF predictions[m][u].prediction
                                        THEN predictions[m][u].amount ELSE 0], Users)
        /\ markets[m].total_no_amount =
                SetSum([u \in Users |-> IF predictions[m][u].prediction
                                        THEN 0 ELSE predictions[m][u].amount], Users)
        /\ markets[m].total_participants =
                Cardinality({u \in Users : predictions[m][u].is_init})

\* all three users hold a record, on both sides, with different amounts
C18_Witness ==
    /\ LastResult("place_prediction", "Ok")
    /\ \E m \in MarketIds :
            /\ markets[m].total_participants = 3
            /\ markets[m].total_yes_amount > markets[m].total_no_amount
            /\ markets[m].total_no_amount > 0

\* The payouts still owed to the unclaimed winning records of market m.
Owed(m) ==
    SetSum([u \in Users |-> IF Won(m, u) /\ ~predictions[m][u].claimed
                            THEN ExactShare(m, u) ELSE 0], Users)

\* C19: the lamports a resolved market holds (what was staked minus what
\* was paid) cover the payouts owed to all its unclaimed winning records
\* together, so claim_winnings on any of them succeeds, in any order, and
\* leaves the market balance at zero or above.
C19_BalanceCoversWinners ==
    \A m \in MarketIds :
        /\ market_lamports[m] = PooledTotal(m) - PaidOut(m)
        /\ markets[m].is_resolved => market_lamports[m] >= Owed(m)
        /\ \A u \in Users, checks \in BOOLEAN :
                (Won(m, u) /\ ~predictions[m][u].claimed) =>
                    LET tx == claim_winnings(m, u, checks) IN
                    /\ tx.err = "Ok"
                    /\ tx.market_lamports[m] = market_lamports[m] - ExactShare(m, u)
                    /\ tx.market_lamports[m] >= 0

\* one winner was just paid more than the stake while another winner of the
\* same market has not claimed yet
C19_Witness ==
    /\ LastResult("claim_winnings", "Ok")
    /\ \E m \in MarketIds, u \in Users, w \in Users :
            /\ Won(m, u) /\ predictions[m][u].claimed
            /\ predictions[m][u].winnings > predictions[m][u].amount
            /\ Won(m, w) /\ ~predictions[m][w].claimed

\* The resolved market m has nothing staked on its outcome.
NoWinners(m) ==
    /\ markets[m].is_resolved
    /\ WinningPool(markets[m], markets[m].outcome[1]) = 0

\* C20: resolve_market by the authority on an unresolved market at or
\* after end_timestamp succeeds for either outcome whatever the totals,
\* also for a side (or a market) with nothing staked.  When nothing is
\* staked on the outcome, every claim_winnings on the market fails and the
\* market keeps all the lamports staked on the other side.
C20_ZeroPoolOutcomeLocksStakes ==
    \A m \in MarketIds :
        /\ (markets[m].is_init /\ ~markets[m].is_resolved
                /\ now >= markets[m].end_timestamp) =>
                \A o \in BOOLEAN :
                    LET tx == resolve_market(m, markets[m].authority,
                                             markets[m].authority, o) IN
                    /\ tx.err = "Ok"
                    /\ tx.markets[m].outcome = Some(o)
        /\ NoWinners(m) =>
                /\ market_lamports[m] = PooledTotal(m)
                /\ \A u \in Users, checks \in BOOLEAN :
                        LET tx == claim_winnings(m, u, checks) IN
                        tx.err # "Ok" /\ tx = Rollback(tx.err)

\* a claim was just refused on a market resolved to the side nobody staked
\* on, which holds the stakes of the other side
C20_Witness ==
    /\ LastResult("claim_winnings", "UserLost")
    /\ \E m \in MarketIds :
            /\ NoWinners(m)
            /\ market_lamports[m] > 0
            /\ markets[m].total_participants >= 2

====
